---- MODULE Spec2Model ----
(***************************************************************************)
(* Two-port file transfer: server.py (control port 5001, one shared data   *)
(* port 5002, one handler thread per control connection, one data thread   *)
(* per transfer) and client.py (upload_file, download_file, list_files,    *)
(* QUIT), plus a raw peer that writes arbitrary command lines.             *)
(*                                                                         *)
(* A control stream is a sequence of lines; a line is its whitespace-split *)
(* tokens and a flag telling whether its newline was sent.  A data         *)
(* connection is a pair of byte queues with the close state of both ends.  *)
(* Time is abstracted: the 10 s accept timeout may fire whenever no        *)
(* connection is queued, and time.sleep(0.1) orders nothing.               *)
(***************************************************************************)
EXTENDS Integers, Sequences, FiniteSets, TLC

\* ------------------------------------------------------------------ bounds
\* the longest file a client uploads
MaxLen == 3
\* operations started by each of two concurrent clients, and by a client alone
ConcOps == 1
SoloOps == 2

\* --------------------------------------------------------------- constants
\* CHUNK_SIZE is 4096 in the source; it is scaled so that file lengths
\* 0..MaxLen cover chunk-1, chunk and chunk+1.
CHUNK_SIZE == 2
DATA_PORT == 5002
\* io.DEFAULT_BUFFER_SIZE, the buffer of a Python file object: 8192, two chunks
FILE_BUFFER == 2 * CHUNK_SIZE

Clients == {1, 2}
Names == {"f", "g"}
NoOwner == 0

\* The bytes of the local file a client uploads: position-tagged and
\* client-tagged, so reordering, loss and cross-session mixing are visible.
Content(c, n) == [i \in 1..n |-> 10 * c + i]

Min2(a, b) == IF a < b THEN a ELSE b
Min3(a, b, c) == Min2(a, Min2(b, c))

\* ------------------------------------------------------------ line codec
Digits == <<"0", "1", "2", "3", "4", "5", "6", "7", "8", "9">>

RECURSIVE NatToStr(_)
NatToStr(n) ==
    IF n < 10 THEN Digits[n + 1]
    ELSE NatToStr(n \div 10) \o Digits[(n % 10) + 1]

\* f"{n}" of an int
IntToStr(n) == IF n < 0 THEN "-" \o NatToStr(0 - n) ELSE NatToStr(n)

\* The integers a token of the model can denote.
IntDomain == (-1..(MaxLen + 1)) \cup {DATA_PORT}

\* int(token): defined when the token is a decimal numeral, else ValueError
IsInt(tok) == \E n \in IntDomain : IntToStr(n) = tok
ParseInt(tok) == CHOOSE n \in IntDomain : IntToStr(n) = tok

Line(toks) == [toks |-> toks, nl |-> TRUE]
Partial(toks) == [toks |-> toks, nl |-> FALSE]

\* recv_line: reads byte by byte until a newline or until recv returns b""
\* (EOF); it returns what it has, stripped, in either case.
LineAvail(stream, eof) ==
    IF stream = <<>> THEN eof ELSE (Head(stream).nl \/ eof)
LineText(stream) == IF stream = <<>> THEN <<>> ELSE Head(stream).toks
LineRest(stream) == IF stream = <<>> THEN <<>> ELSE Tail(stream)

\* ------------------------------------------------------------ file system
\* write(2) of data at offset off: a hole left by a truncation is zero-filled
WriteAt(file, off, data) ==
    LET newLen == IF off + Len(data) > Len(file) THEN off + Len(data) ELSE Len(file)
    IN  [i \in 1..newLen |->
            IF i > off /\ i <= off + Len(data) THEN data[i - off]
            ELSE IF i <= Len(file) THEN file[i]
            ELSE 0]

\* Faulty variant of ReadChunk: every read starts at the beginning of the file
ReadChunkRewound(file, pos) ==
    IF pos >= Len(file) THEN <<>>
    ELSE SubSeq(file, 1, Min2(CHUNK_SIZE, Len(file)))

\* f.read(CHUNK_SIZE) at file position pos
ReadChunk(file, pos) ==
    IF pos >= Len(file) THEN <<>>
    ELSE SubSeq(file, pos + 1, Min2(pos + CHUNK_SIZE, Len(file)))

\* os.listdir: every order of the directory's names
Listings(S) ==
    {q \in [1..Cardinality(S) -> S] : \A i, j \in 1..Cardinality(S) : q[i] = q[j] => i = j}

VARIABLES
    storage,    \* server_files: name -> bytes, for the names that exist
    listener,   \* the handler whose listening socket is bound to DATA_PORT
    acceptq,    \* connections completed on the listener, not yet accepted
    conns,      \* data connections: id -> [st, up, down, cclosed]
    c2s,        \* control stream client -> server, per session
    s2c,        \* control stream server -> client, per session
    cclosed,    \* the client has closed its control socket
    spc,        \* handle_client: position of the session's thread
    sop,        \* handle_client: filename, filesize of the current transfer
    dpc,        \* handle_data_connection: position of the data thread
    dst,        \* handle_data_connection: data_conn, filesize, byte count, buffer
    cpc,        \* client: position
    cop,        \* client: locals of the running operation
    cfile,      \* client_downloads: name -> bytes
    log         \* history: the operations each client has started

vars == <<storage, listener, acceptq, conns, c2s, s2c, cclosed,
          spc, sop, dpc, dst, cpc, cop, cfile, log>>

NoConn == <<0, 0>>
NoSop == [op |-> "", filename |-> "", filesize |-> 0]
NoDst == [conn |-> NoConn, filesize |-> 0, n |-> 0, wbuf |-> <<>>]
NoCop == [name |-> "", size |-> 0, port |-> 0, n |-> 0, conn |-> NoConn, files |-> <<>>]

EmptyMap == [x \in {} |-> 0]
Restrict(f, S) == [x \in S |-> f[x]]
Put(f, k, v) == [x \in (DOMAIN f) \cup {k} |-> IF x = k THEN v ELSE f[x]]

\* The storage directory as the server finds it: empty, or holding a file
\* left by an earlier run.
OldFile == <<91, 92>>
Stores == {EmptyMap, [x \in {"g"} |-> OldFile]}

Init ==
    /\ storage \in Stores
    /\ listener = NoOwner
    /\ acceptq = <<>>
    /\ conns = EmptyMap
    /\ c2s = [c \in Clients |-> <<>>]
    /\ s2c = [c \in Clients |-> <<>>]
    /\ cclosed = [c \in Clients |-> FALSE]
    /\ spc = [c \in Clients |-> "none"]
    /\ sop = [c \in Clients |-> NoSop]
    /\ dpc = [c \in Clients |-> "none"]
    /\ dst = [c \in Clients |-> NoDst]
    /\ cpc = [c \in Clients |-> "init"]
    /\ cop = [c \in Clients |-> NoCop]
    /\ cfile = [c \in Clients |-> EmptyMap]
    /\ log = [c \in Clients |-> <<>>]

\* ----------------------------------------------------------- server side
Send(s, lines) == s2c' = [s2c EXCEPT ![s] = @ \o lines]

\* os.path.exists(filepath)
FileExists(name) == name \in DOMAIN storage

\* The socket objects of a data thread are closed by data_conn.close() and
\* data_socket.close() on the normal path, and by the release of the frame's
\* locals when the function returns through an except clause.  Closing the
\* listening socket resets the connections still queued on it.
ServerClosed(cs, id) ==
    IF id \in DOMAIN cs
    THEN [cs EXCEPT ![id] = [@ EXCEPT !.st = "sclosed", !.up = <<>>]]
    ELSE cs
ResetQueued(cs, q) ==
    [id \in DOMAIN cs |->
        IF \E i \in 1..Len(q) : q[i] = id
        THEN [cs[id] EXCEPT !.st = "reset", !.up = <<>>, !.down = <<>>]
        ELSE cs[id]]
\* A connection both ends are finished with is forgotten.
Live(cs) ==
    Restrict(cs, {id \in DOMAIN cs :
                    ~(cs[id].cclosed /\ cs[id].st \in {"sclosed", "reset"})})

\* --- handle_client: the reply and the next position for one command line
UploadOutcome(parts) ==
    IF Len(parts) < 3 \/ ~IsInt(parts[3])
    THEN [reply |-> <<>>, next |-> "closed", thread |-> FALSE, sop |-> NoSop]
    ELSE [reply |-> <<Line(<<"OK", IntToStr(DATA_PORT)>>)>>,
          next |-> "join", thread |-> TRUE,
          sop |-> [op |-> "UPLOAD", filename |-> parts[2],
                   filesize |-> ParseInt(parts[3])]]

\* Faulty variant of DownloadOutcome: the missing-file branch lacks its
\* continue, so os.path.getsize raises and the session ends
DownloadOutcomeNoContinue(parts) ==
    IF Len(parts) < 2
    THEN [reply |-> <<>>, next |-> "closed", thread |-> FALSE, sop |-> NoSop]
    ELSE IF ~FileExists(parts[2])
    THEN [reply |-> <<Line(<<"ERROR", "FileNotFound">>)>>,
          next |-> "closed", thread |-> FALSE, sop |-> NoSop]
    ELSE [reply |-> <<Line(<<"OK", IntToStr(Len(storage[parts[2]])),
                              IntToStr(DATA_PORT)>>)>>,
          next |-> "wait_ready", thread |-> FALSE,
          sop |-> [op |-> "DOWNLOAD", filename |-> parts[2],
                   filesize |-> Len(storage[parts[2]])]]

DownloadOutcome(parts) ==
    IF Len(parts) < 2
    THEN [reply |-> <<>>, next |-> "closed", thread |-> FALSE, sop |-> NoSop]
    ELSE IF ~FileExists(parts[2])
    THEN [reply |-> <<Line(<<"ERROR", "FileNotFound">>)>>,
          next |-> "recv_cmd", thread |-> FALSE, sop |-> NoSop]
    ELSE [reply |-> <<Line(<<"OK", IntToStr(Len(storage[parts[2]])),
                              IntToStr(DATA_PORT)>>)>>,
          next |-> "wait_ready", thread |-> FALSE,
          sop |-> [op |-> "DOWNLOAD", filename |-> parts[2],
                   filesize |-> Len(storage[parts[2]])]]

\* Faulty variant of ListOutcome: the loop over the names skips the first one
ListOutcomeSkipsFirst(files) ==
    [reply |-> <<Line(<<"OK">>)>>
               \o [i \in 1..(Len(files) - 1) |-> Line(<<files[i + 1]>>)]
               \o <<Line(<<"DONE">>)>>,
     next |-> "recv_cmd", thread |-> FALSE, sop |-> NoSop]

ListOutcome(files) ==
    [reply |-> <<Line(<<"OK">>)>>
               \o [i \in 1..Len(files) |-> Line(<<files[i]>>)]
               \o <<Line(<<"DONE">>)>>,
     next |-> "recv_cmd", thread |-> FALSE, sop |-> NoSop]

\* Faulty variant of QuitOutcome: the break is missing
QuitOutcomeNoBreak ==
    [reply |-> <<Line(<<"OK">>)>>, next |-> "recv_cmd", thread |-> FALSE, sop |-> NoSop]

QuitOutcome ==
    [reply |-> <<Line(<<"OK">>)>>, next |-> "closed", thread |-> FALSE, sop |-> NoSop]

\* Faulty variant of UnknownOutcome: the else branch leaves the loop
UnknownOutcomeBreak ==
    [reply |-> <<Line(<<"ERROR", "UnknownCommand">>)>>,
     next |-> "closed", thread |-> FALSE, sop |-> NoSop]

UnknownOutcome ==
    [reply |-> <<Line(<<"ERROR", "UnknownCommand">>)>>,
     next |-> "recv_cmd", thread |-> FALSE, sop |-> NoSop]

\* if not cmd_line: break
EofOutcome ==
    [reply |-> <<>>, next |-> "closed", thread |-> FALSE, sop |-> NoSop]

CommandOutcome(parts, files) ==
    IF parts = <<>> THEN EofOutcome
    ELSE IF parts[1] = "UPLOAD" THEN UploadOutcome(parts)
    ELSE IF parts[1] = "DOWNLOAD" THEN DownloadOutcome(parts)
    ELSE IF parts[1] = "LIST" THEN ListOutcome(files)
    ELSE IF parts[1] = "QUIT" THEN QuitOutcome
    ELSE UnknownOutcome

\* start_server: accept a control connection, start its handle_client thread
AcceptControl(s) ==
    /\ cpc[s] # "init"
    /\ spc[s] = "none"
    /\ spc' = [spc EXCEPT ![s] = "recv_cmd"]
    /\ UNCHANGED <<storage, listener, acceptq, conns, c2s, s2c, cclosed,
                   sop, dpc, dst, cpc, cop, cfile, log>>

\* handle_client: one turn of the command loop, up to the start of the
\* data thread (UPLOAD), the wait for READY (DOWNLOAD) or the next turn
RecvCommand(s) ==
    /\ spc[s] = "recv_cmd"
    /\ LineAvail(c2s[s], cclosed[s])
    /\ \E files \in Listings(DOMAIN storage) :
         LET out == CommandOutcome(LineText(c2s[s]), files)
         IN  /\ c2s' = [c2s EXCEPT ![s] = LineRest(@)]
             /\ Send(s, out.reply)
             /\ spc' = [spc EXCEPT ![s] = out.next]
             /\ sop' = [sop EXCEPT ![s] = out.sop]
             /\ dpc' = [dpc EXCEPT ![s] = IF out.thread THEN "bind" ELSE "none"]
             /\ dst' = [dst EXCEPT ![s] =
                            IF out.thread
                            THEN [NoDst EXCEPT !.filesize = out.sop.filesize]
                            ELSE @]
    /\ UNCHANGED <<storage, listener, acceptq, conns, cclosed,
                   cpc, cop, cfile, log>>

\* Faulty variant of WaitReady: the comparison with "READY" is missing, any
\* line starts the data thread
WaitReadyAnyLine(s) ==
    /\ spc[s] = "wait_ready"
    /\ LineAvail(c2s[s], cclosed[s])
    /\ c2s' = [c2s EXCEPT ![s] = LineRest(@)]
    /\ spc' = [spc EXCEPT ![s] = "join"]
    /\ dpc' = [dpc EXCEPT ![s] = "bind"]
    /\ dst' = [dst EXCEPT ![s] = [NoDst EXCEPT !.filesize = sop[s].filesize]]
    /\ UNCHANGED <<storage, listener, acceptq, conns, s2c, cclosed, sop,
                   cpc, cop, cfile, log>>

\* handle_client: ready = recv_line(conn) of the DOWNLOAD branch
WaitReady(s) ==
    /\ spc[s] = "wait_ready"
    /\ LineAvail(c2s[s], cclosed[s])
    /\ c2s' = [c2s EXCEPT ![s] = LineRest(@)]
    /\ IF LineText(c2s[s]) = <<"READY">>
       THEN /\ spc' = [spc EXCEPT ![s] = "join"]
            /\ dpc' = [dpc EXCEPT ![s] = "bind"]
            /\ dst' = [dst EXCEPT ![s] = [NoDst EXCEPT !.filesize = sop[s].filesize]]
            /\ sop' = sop
       ELSE /\ spc' = [spc EXCEPT ![s] = "recv_cmd"]
            /\ dpc' = dpc
            /\ dst' = dst
            /\ sop' = [sop EXCEPT ![s] = NoSop]
    /\ UNCHANGED <<storage, listener, acceptq, conns, s2c, cclosed,
                   cpc, cop, cfile, log>>

\* bind((HOST, DATA_PORT)) succeeds when no other listening socket holds the port
CanBind(s) == listener = NoOwner

\* The positions at which handle_data_connection has returned: after
\* data_socket.close(), through except socket.timeout, through except Exception
Returned == {"done", "timeout", "error"}

\* handle_data_connection: socket, bind, listen; a failed bind raises OSError,
\* which the function's except clause swallows
Bind(s) ==
    /\ dpc[s] = "bind"
    /\ IF CanBind(s)
       THEN /\ listener' = s
            /\ dpc' = [dpc EXCEPT ![s] = "accept"]
       ELSE /\ listener' = listener
            /\ dpc' = [dpc EXCEPT ![s] = "error"]
    /\ UNCHANGED <<storage, acceptq, conns, c2s, s2c, cclosed, spc, sop, dst,
                   cpc, cop, cfile, log>>

\* handle_data_connection: accept returns the first queued connection; the
\* file is then opened ('wb' creates or truncates it; 'rb', and filesize is
\* set anew from os.path.getsize)
Accept(s) ==
    /\ dpc[s] = "accept"
    /\ listener = s
    /\ acceptq # <<>>
    /\ LET id == Head(acceptq)
           name == sop[s].filename
       IN  /\ acceptq' = Tail(acceptq)
           /\ conns' = [conns EXCEPT ![id] = [@ EXCEPT !.st = "accepted"]]
           /\ IF sop[s].op = "UPLOAD"
              THEN /\ storage' = Put(storage, name, <<>>)
                   /\ dst' = [dst EXCEPT ![s] = [@ EXCEPT !.conn = id]]
              ELSE /\ storage' = storage
                   /\ dst' = [dst EXCEPT ![s] = [@ EXCEPT !.conn = id,
                                                         !.filesize = Len(storage[name])]]
    /\ dpc' = [dpc EXCEPT ![s] = "xfer"]
    /\ UNCHANGED <<listener, c2s, s2c, cclosed, spc, sop, cpc, cop, cfile, log>>

\* Faulty variant of AcceptTimeout: settimeout is missing, accept never
\* gives up
AcceptBlocks(s) ==
    /\ FALSE
    /\ UNCHANGED vars

\* handle_data_connection: accept raises socket.timeout after 10 s with no
\* connection; the except clause returns
AcceptTimeout(s) ==
    /\ dpc[s] = "accept"
    /\ listener = s
    /\ acceptq = <<>>
    /\ listener' = NoOwner
    /\ dpc' = [dpc EXCEPT ![s] = "timeout"]
    /\ UNCHANGED <<storage, acceptq, conns, c2s, s2c, cclosed, spc, sop, dst,
                   cpc, cop, cfile, log>>

\* Faulty variant of ReleaseSockets: the listening socket is kept open
ReleaseSocketsKeepListener(s, id, pos) ==
    /\ conns' = Live(ServerClosed(conns, id))
    /\ acceptq' = acceptq
    /\ listener' = listener
    /\ dpc' = [dpc EXCEPT ![s] = pos]
    /\ dst' = [dst EXCEPT ![s] = [@ EXCEPT !.conn = NoConn, !.wbuf = <<>>]]

\* The data thread returns at position pos after a connection was accepted:
\* its sockets are closed, the port is free again
ReleaseSockets(s, id, pos) ==
    /\ conns' = Live(ResetQueued(ServerClosed(conns, id), acceptq))
    /\ acceptq' = <<>>
    /\ listener' = NoOwner
    /\ dpc' = [dpc EXCEPT ![s] = pos]
    /\ dst' = [dst EXCEPT ![s] = [@ EXCEPT !.conn = NoConn, !.wbuf = <<>>]]

\* The file object of open(filepath, 'wb') buffers what f.write is given and
\* writes the buffer out when the next chunk does not fit, and when the file
\* is closed.  Fill is the buffer and the file after f.write(chunk), for a
\* buffer holding the bytes from file position received - Len(wbuf).
Fill(file, pos, wbuf, chunk) ==
    IF Len(wbuf) + Len(chunk) > FILE_BUFFER
    THEN [file |-> WriteAt(file, pos - Len(wbuf), wbuf), wbuf |-> chunk]
    ELSE [file |-> file, wbuf |-> wbuf \o chunk]

\* handle_data_connection, UPLOAD: one turn of the receive loop.  recv returns
\* some of the bytes in flight, at most min(CHUNK_SIZE, filesize - received).
UploadRecv(s) ==
    /\ dpc[s] = "xfer"
    /\ sop[s].op = "UPLOAD"
    /\ dst[s].n < dst[s].filesize
    /\ LET id == dst[s].conn
           name == sop[s].filename
       IN  /\ conns[id].up # <<>>
           /\ \E k \in 1..Min3(CHUNK_SIZE, dst[s].filesize - dst[s].n, Len(conns[id].up)) :
                LET w == Fill(storage[name], dst[s].n, dst[s].wbuf,
                              SubSeq(conns[id].up, 1, k))
                IN  /\ conns' = [conns EXCEPT ![id] =
                                    [@ EXCEPT !.up = SubSeq(@, k + 1, Len(@))]]
                    /\ storage' = [storage EXCEPT ![name] = w.file]
                    /\ dst' = [dst EXCEPT ![s] = [@ EXCEPT !.n = @ + k, !.wbuf = w.wbuf]]
    /\ UNCHANGED <<listener, acceptq, c2s, s2c, cclosed, spc, sop, dpc,
                   cpc, cop, cfile, log>>

\* handle_data_connection, DOWNLOAD: one turn of the send loop.  sendall to a
\* peer that has closed either still succeeds or raises; the except clause
\* then ends the thread.
DownloadSend(s) ==
    /\ dpc[s] = "xfer"
    /\ sop[s].op = "DOWNLOAD"
    /\ dst[s].n < dst[s].filesize
    /\ LET id == dst[s].conn
           chunk == ReadChunk(storage[sop[s].filename], dst[s].n)
       IN  /\ chunk # <<>>
           /\ \E raises \in BOOLEAN :
                IF conns[id].cclosed /\ raises
                THEN ReleaseSockets(s, id, "error")
                ELSE /\ conns' = [conns EXCEPT ![id] =
                                    [@ EXCEPT !.down = IF conns[id].cclosed THEN <<>>
                                                       ELSE @ \o chunk]]
                     /\ dst' = [dst EXCEPT ![s] = [@ EXCEPT !.n = @ + Len(chunk)]]
                     /\ UNCHANGED <<acceptq, listener, dpc>>
    /\ UNCHANGED <<storage, c2s, s2c, cclosed, spc, sop, cpc, cop, cfile, log>>

\* The transfer loop is over: the declared count is reached, or recv / f.read
\* returned nothing (the peer closed, the file ended)
LoopOver(s) ==
    IF sop[s].op = "UPLOAD"
    THEN \/ dst[s].n >= dst[s].filesize
         \/ (conns[dst[s].conn].up = <<>> /\ conns[dst[s].conn].cclosed)
    ELSE \/ dst[s].n >= dst[s].filesize
         \/ ReadChunk(storage[sop[s].filename], dst[s].n) = <<>>

\* Faulty variant of FinishTransfer: what the file object still buffers is
\* lost when the loop ends
FinishTransferNoFlush(s) ==
    /\ dpc[s] = "xfer"
    /\ LoopOver(s)
    /\ storage' = storage
    /\ ReleaseSockets(s, dst[s].conn, "done")
    /\ UNCHANGED <<c2s, s2c, cclosed, spc, sop, cpc, cop, cfile, log>>

\* handle_data_connection: leave the with block (the file is flushed and
\* closed), data_conn.close(), data_socket.close()
FinishTransfer(s) ==
    /\ dpc[s] = "xfer"
    /\ LoopOver(s)
    /\ storage' = IF sop[s].op = "UPLOAD" /\ dst[s].wbuf # <<>>
                  THEN [storage EXCEPT ![sop[s].filename] =
                            WriteAt(@, dst[s].n - Len(dst[s].wbuf), dst[s].wbuf)]
                  ELSE storage
    /\ ReleaseSockets(s, dst[s].conn, "done")
    /\ UNCHANGED <<c2s, s2c, cclosed, spc, sop, cpc, cop, cfile, log>>

\* Faulty variant of Joined: the data thread is started and not joined
NotJoined(s) == TRUE

\* data_thread.join() returns when the data thread has ended
Joined(s) == dpc[s] \in Returned

\* handle_client: join the data thread, then conn.sendall(b"DONE\n")
JoinAndDone(s) ==
    /\ spc[s] = "join"
    /\ Joined(s)
    /\ Send(s, <<Line(<<"DONE">>)>>)
    /\ spc' = [spc EXCEPT ![s] = "recv_cmd"]
    /\ dpc' = [dpc EXCEPT ![s] = IF @ \in Returned THEN "none" ELSE @]
    /\ sop' = [sop EXCEPT ![s] = IF dpc[s] \in Returned THEN NoSop ELSE @]
    /\ dst' = [dst EXCEPT ![s] = IF dpc[s] \in Returned THEN NoDst ELSE @]
    /\ UNCHANGED <<storage, listener, acceptq, conns, c2s, cclosed,
                   cpc, cop, cfile, log>>

\* ----------------------------------------------------------- client side
ServerGone(c) == spc[c] = "closed"
ReplyAvail(c) == LineAvail(s2c[c], ServerGone(c))
Reply(c) == LineText(s2c[c])
Started(c) == Len(log[c])
Entry(op, name, size) ==
    [op |-> op, name |-> name, size |-> size, res |-> <<>>, files |-> <<>>]
\* The operation the client is in ends with this response line, these names
Ended(c, res, files) ==
    [log EXCEPT ![c] = [@ EXCEPT ![Len(@)] = [@ EXCEPT !.res = res, !.files = files]]]

\* The sizes an UPLOAD header declares: os.path.getsize gives 0..MaxLen; -1 is
\* the header of a peer that follows upload_file's steps with a negative size.
UploadSizes == -1..MaxLen
\* The sizes uploaded when two clients run at once
ConcSizes == {-1, 0, MaxLen}

\* socket.close() on the client's data socket (explicit, or by the release of
\* the function's locals when an exception ends the operation)
ClientClosed(cs, id) ==
    IF id \in DOMAIN cs
    THEN Live([cs EXCEPT ![id] = [@ EXCEPT !.cclosed = TRUE, !.down = <<>>]])
    ELSE cs

\* connect((SERVER_HOST, data_port)) finds a listening socket
Listening(port) == port = DATA_PORT /\ listener # NoOwner

NewConn == [st |-> "queued", up |-> <<>>, down |-> <<>>, cclosed |-> FALSE]

\* main: connect the control socket
ClientConnect(c) ==
    /\ cpc[c] = "init"
    /\ cpc' = [cpc EXCEPT ![c] = "menu"]
    /\ UNCHANGED <<storage, listener, acceptq, conns, c2s, s2c, cclosed,
                   spc, sop, dpc, dst, cop, cfile, log>>

\* upload_file: send the header
StartUpload(c, name, size, ops) ==
    /\ cpc[c] = "menu"
    /\ Started(c) < ops
    /\ c2s' = [c2s EXCEPT ![c] = Append(@, Line(<<"UPLOAD", name, IntToStr(size)>>))]
    /\ cop' = [cop EXCEPT ![c] = [NoCop EXCEPT !.name = name, !.size = size]]
    /\ cpc' = [cpc EXCEPT ![c] = "up_ok"]
    /\ log' = [log EXCEPT ![c] = Append(@, Entry("upload", name, size))]
    /\ UNCHANGED <<storage, listener, acceptq, conns, s2c, cclosed,
                   spc, sop, dpc, dst, cfile>>

\* upload_file: response = recv_line; data_port = int(response.split()[1])
UploadRecvOk(c) ==
    /\ cpc[c] = "up_ok"
    /\ ReplyAvail(c)
    /\ s2c' = [s2c EXCEPT ![c] = LineRest(@)]
    /\ IF Reply(c) # <<>> /\ Reply(c)[1] = "OK" /\ Len(Reply(c)) >= 2 /\ IsInt(Reply(c)[2])
       THEN /\ cop' = [cop EXCEPT ![c] = [@ EXCEPT !.port = ParseInt(Reply(c)[2])]]
            /\ cpc' = [cpc EXCEPT ![c] = "up_conn"]
       ELSE /\ cop' = [cop EXCEPT ![c] = NoCop]
            /\ cpc' = [cpc EXCEPT ![c] = "menu"]
    /\ UNCHANGED <<storage, listener, acceptq, conns, c2s, cclosed,
                   spc, sop, dpc, dst, cfile, log>>

\* upload_file: connect the data socket; a refused connect raises, and the
\* function's except clause returns to the menu
UploadConnect(c) ==
    /\ cpc[c] = "up_conn"
    /\ IF Listening(cop[c].port)
       THEN LET id == <<c, Started(c)>>
            IN  /\ conns' = Put(conns, id, NewConn)
                /\ acceptq' = Append(acceptq, id)
                /\ cop' = [cop EXCEPT ![c] = [@ EXCEPT !.conn = id]]
                /\ cpc' = [cpc EXCEPT ![c] = "up_send"]
       ELSE /\ conns' = conns
            /\ acceptq' = acceptq
            /\ cop' = [cop EXCEPT ![c] = NoCop]
            /\ cpc' = [cpc EXCEPT ![c] = "menu"]
    /\ UNCHANGED <<storage, listener, c2s, s2c, cclosed,
                   spc, sop, dpc, dst, cfile, log>>

\* upload_file: one turn of the send loop.  sendall on a connection the server
\* side has closed or reset either still succeeds or raises.
UploadSend(c) ==
    /\ cpc[c] = "up_send"
    /\ cop[c].n < cop[c].size
    /\ LET id == cop[c].conn
           chunk == ReadChunk(Content(c, cop[c].size), cop[c].n)
       IN  \E raises \in BOOLEAN :
             IF conns[id].st \in {"sclosed", "reset"} /\ raises
             THEN /\ conns' = ClientClosed(conns, id)
                  /\ cop' = [cop EXCEPT ![c] = NoCop]
                  /\ cpc' = [cpc EXCEPT ![c] = "menu"]
             ELSE /\ conns' = [conns EXCEPT ![id] =
                                 [@ EXCEPT !.up = IF conns[id].st \in {"sclosed", "reset"}
                                                  THEN <<>> ELSE @ \o chunk]]
                  /\ cop' = [cop EXCEPT ![c] = [@ EXCEPT !.n = @ + Len(chunk)]]
                  /\ cpc' = cpc
    /\ UNCHANGED <<storage, listener, acceptq, c2s, s2c, cclosed,
                   spc, sop, dpc, dst, cfile, log>>

\* upload_file: the loop is over; data_sock.close()
UploadClose(c) ==
    /\ cpc[c] = "up_send"
    /\ cop[c].n >= cop[c].size
    /\ conns' = ClientClosed(conns, cop[c].conn)
    /\ cop' = [cop EXCEPT ![c] = [@ EXCEPT !.conn = NoConn]]
    /\ cpc' = [cpc EXCEPT ![c] = "up_done"]
    /\ UNCHANGED <<storage, listener, acceptq, c2s, s2c, cclosed,
                   spc, sop, dpc, dst, cfile, log>>

\* upload_file / download_file: response = recv_line after the transfer
RecvDone(c) ==
    /\ cpc[c] \in {"up_done", "dl_done"}
    /\ ReplyAvail(c)
    /\ s2c' = [s2c EXCEPT ![c] = LineRest(@)]
    /\ cop' = [cop EXCEPT ![c] = NoCop]
    /\ cpc' = [cpc EXCEPT ![c] = "menu"]
    /\ log' = Ended(c, Reply(c), <<>>)
    /\ UNCHANGED <<storage, listener, acceptq, conns, c2s, cclosed,
                   spc, sop, dpc, dst, cfile>>

\* download_file: send the header
StartDownload(c, name, ops) ==
    /\ cpc[c] = "menu"
    /\ Started(c) < ops
    /\ c2s' = [c2s EXCEPT ![c] = Append(@, Line(<<"DOWNLOAD", name>>))]
    /\ cop' = [cop EXCEPT ![c] = [NoCop EXCEPT !.name = name]]
    /\ cpc' = [cpc EXCEPT ![c] = "dl_resp"]
    /\ log' = [log EXCEPT ![c] = Append(@, Entry("download", name, 0))]
    /\ UNCHANGED <<storage, listener, acceptq, conns, s2c, cclosed,
                   spc, sop, dpc, dst, cfile>>

\* download_file: read the response; on "OK <filesize> <data_port>" send READY
DownloadRecvResp(c) ==
    /\ cpc[c] = "dl_resp"
    /\ ReplyAvail(c)
    /\ s2c' = [s2c EXCEPT ![c] = LineRest(@)]
    /\ IF /\ Reply(c) # <<>>
          /\ Reply(c)[1] = "OK"
          /\ Len(Reply(c)) >= 3
          /\ IsInt(Reply(c)[2])
          /\ IsInt(Reply(c)[3])
       THEN /\ cop' = [cop EXCEPT ![c] = [@ EXCEPT !.size = ParseInt(Reply(c)[2]),
                                                   !.port = ParseInt(Reply(c)[3])]]
            /\ c2s' = [c2s EXCEPT ![c] = Append(@, Line(<<"READY">>))]
            /\ cpc' = [cpc EXCEPT ![c] = "dl_conn"]
       ELSE /\ cop' = [cop EXCEPT ![c] = NoCop]
            /\ c2s' = c2s
            /\ cpc' = [cpc EXCEPT ![c] = "menu"]
    /\ UNCHANGED <<storage, listener, acceptq, conns, cclosed,
                   spc, sop, dpc, dst, cfile, log>>

\* download_file: connect the data socket, then open(local_path, 'wb')
DownloadConnect(c) ==
    /\ cpc[c] = "dl_conn"
    /\ IF Listening(cop[c].port)
       THEN LET id == <<c, Started(c)>>
            IN  /\ conns' = Put(conns, id, NewConn)
                /\ acceptq' = Append(acceptq, id)
                /\ cop' = [cop EXCEPT ![c] = [@ EXCEPT !.conn = id]]
                /\ cfile' = [cfile EXCEPT ![c] = Put(@, cop[c].name, <<>>)]
                /\ cpc' = [cpc EXCEPT ![c] = "dl_recv"]
       ELSE /\ conns' = conns
            /\ acceptq' = acceptq
            /\ cop' = [cop EXCEPT ![c] = NoCop]
            /\ cfile' = cfile
            /\ cpc' = [cpc EXCEPT ![c] = "menu"]
    /\ UNCHANGED <<storage, listener, c2s, s2c, cclosed,
                   spc, sop, dpc, dst, log>>

\* download_file: one turn of the receive loop
DownloadRecv(c) ==
    /\ cpc[c] = "dl_recv"
    /\ cop[c].n < cop[c].size
    /\ LET id == cop[c].conn
       IN  /\ conns[id].down # <<>>
           /\ \E k \in 1..Min3(CHUNK_SIZE, cop[c].size - cop[c].n, Len(conns[id].down)) :
                /\ conns' = [conns EXCEPT ![id] =
                                [@ EXCEPT !.down = SubSeq(@, k + 1, Len(@))]]
                /\ cfile' = [cfile EXCEPT ![c] =
                                [@ EXCEPT ![cop[c].name] = @ \o SubSeq(conns[id].down, 1, k)]]
                /\ cop' = [cop EXCEPT ![c] = [@ EXCEPT !.n = @ + k]]
    /\ UNCHANGED <<storage, listener, acceptq, c2s, s2c, cclosed,
                   spc, sop, dpc, dst, cpc, log>>

\* download_file: the loop is over (the announced count is reached or recv
\* returned b"" after the server closed): data_sock.close().  recv on a reset
\* connection raises, and the except clause returns to the menu.
DownloadClose(c) ==
    /\ cpc[c] = "dl_recv"
    /\ LET id == cop[c].conn
       IN  /\ \/ cop[c].n >= cop[c].size
              \/ (conns[id].down = <<>> /\ conns[id].st \in {"sclosed", "reset"})
           /\ conns' = ClientClosed(conns, id)
           /\ IF cop[c].n < cop[c].size /\ conns[id].st = "reset"
              THEN /\ cop' = [cop EXCEPT ![c] = NoCop]
                   /\ cpc' = [cpc EXCEPT ![c] = "menu"]
              ELSE /\ cop' = [cop EXCEPT ![c] = [@ EXCEPT !.conn = NoConn]]
                   /\ cpc' = [cpc EXCEPT ![c] = "dl_done"]
    /\ UNCHANGED <<storage, listener, acceptq, c2s, s2c, cclosed,
                   spc, sop, dpc, dst, cfile, log>>

\* list_files: send LIST
StartList(c, ops) ==
    /\ cpc[c] = "menu"
    /\ Started(c) < ops
    /\ c2s' = [c2s EXCEPT ![c] = Append(@, Line(<<"LIST">>))]
    /\ cpc' = [cpc EXCEPT ![c] = "ls_ok"]
    /\ log' = [log EXCEPT ![c] = Append(@, Entry("list", "", 0))]
    /\ UNCHANGED <<storage, listener, acceptq, conns, s2c, cclosed,
                   spc, sop, dpc, dst, cop, cfile>>

\* list_files: response = recv_line; anything but OK ends the operation
ListRecvOk(c) ==
    /\ cpc[c] = "ls_ok"
    /\ ReplyAvail(c)
    /\ s2c' = [s2c EXCEPT ![c] = LineRest(@)]
    /\ cpc' = [cpc EXCEPT ![c] = IF Reply(c) = <<"OK">> THEN "ls_lines" ELSE "menu"]
    /\ UNCHANGED <<storage, listener, acceptq, conns, c2s, cclosed,
                   spc, sop, dpc, dst, cop, cfile, log>>

\* list_files: one turn of the loop that collects lines until DONE (at EOF
\* recv_line returns "" and the loop goes on)
ListRecvLine(c) ==
    /\ cpc[c] = "ls_lines"
    /\ ReplyAvail(c)
    /\ s2c' = [s2c EXCEPT ![c] = LineRest(@)]
    /\ IF Reply(c) = <<"DONE">>
       THEN /\ cpc' = [cpc EXCEPT ![c] = "menu"]
            /\ cop' = [cop EXCEPT ![c] = NoCop]
            /\ log' = Ended(c, Reply(c), cop[c].files)
       ELSE /\ cpc' = cpc
            /\ cop' = [cop EXCEPT ![c] = [@ EXCEPT !.files =
                          IF Reply(c) = <<>> THEN @ ELSE Append(@, Reply(c)[1])]]
            /\ log' = log
    /\ UNCHANGED <<storage, listener, acceptq, conns, c2s, cclosed,
                   spc, sop, dpc, dst, cfile>>

\* main, choice 4: send QUIT
StartQuit(c, ops) ==
    /\ cpc[c] = "menu"
    /\ Started(c) < ops
    /\ c2s' = [c2s EXCEPT ![c] = Append(@, Line(<<"QUIT">>))]
    /\ cpc' = [cpc EXCEPT ![c] = "quit_resp"]
    /\ log' = [log EXCEPT ![c] = Append(@, Entry("quit", "", 0))]
    /\ UNCHANGED <<storage, listener, acceptq, conns, s2c, cclosed,
                   spc, sop, dpc, dst, cop, cfile>>

\* main, choice 4: response = recv_line; break; control_sock.close()
QuitRecv(c) ==
    /\ cpc[c] = "quit_resp"
    /\ ReplyAvail(c)
    /\ s2c' = [s2c EXCEPT ![c] = LineRest(@)]
    /\ cclosed' = [cclosed EXCEPT ![c] = TRUE]
    /\ cpc' = [cpc EXCEPT ![c] = "closed"]
    /\ UNCHANGED <<storage, listener, acceptq, conns, c2s,
                   spc, sop, dpc, dst, cop, cfile, log>>

\* ---------------------------------------------------------------- raw peer
\* A peer other than client.py: it writes command lines of its choice on the
\* control connection, reads no reply and opens no data connection.
RawLines ==
    { <<"FOO">>, <<"READY">>, <<"LIST">>, <<"QUIT">>, <<>>,
      <<"DOWNLOAD">>, <<"DOWNLOAD", "f">>, <<"DOWNLOAD", "g">>,
      <<"UPLOAD", "f">>, <<"UPLOAD", "f", "x">>, <<"UPLOAD", "f", "1">> }

PartialLines == { <<"LIST">>, <<"FOO">>, <<"UPLOAD", "f", "1">> }

IsRaw(c) == cpc[c] = "raw" \/ (cpc[c] = "menu" /\ Started(c) = 0)

RawSend(c, toks, ops) ==
    /\ IsRaw(c)
    /\ Started(c) < ops
    /\ c2s' = [c2s EXCEPT ![c] = Append(@, Line(toks))]
    /\ cpc' = [cpc EXCEPT ![c] = "raw"]
    /\ log' = [log EXCEPT ![c] = Append(@, Entry("raw", "", 0))]
    /\ UNCHANGED <<storage, listener, acceptq, conns, s2c, cclosed,
                   spc, sop, dpc, dst, cop, cfile>>

\* The peer writes a line without its newline and closes the connection
RawSendPartial(c, toks, ops) ==
    /\ IsRaw(c)
    /\ Started(c) < ops
    /\ c2s' = [c2s EXCEPT ![c] = Append(@, Partial(toks))]
    /\ cclosed' = [cclosed EXCEPT ![c] = TRUE]
    /\ cpc' = [cpc EXCEPT ![c] = "closed"]
    /\ log' = [log EXCEPT ![c] = Append(@, Entry("raw", "", 0))]
    /\ UNCHANGED <<storage, listener, acceptq, conns, s2c,
                   spc, sop, dpc, dst, cop, cfile>>

\* The client process ends (an interrupt, a crash): its sockets are closed
ClientExit(c) ==
    /\ cpc[c] \notin {"init", "closed"}
    /\ cclosed' = [cclosed EXCEPT ![c] = TRUE]
    /\ conns' = ClientClosed(conns, cop[c].conn)
    /\ cop' = [cop EXCEPT ![c] = NoCop]
    /\ cpc' = [cpc EXCEPT ![c] = "closed"]
    /\ UNCHANGED <<storage, listener, acceptq, c2s, s2c,
                   spc, sop, dpc, dst, cfile, log>>

\* ------------------------------------------------------------------- system
ServerStep(s) ==
    \/ AcceptControl(s)
    \/ RecvCommand(s)
    \/ WaitReady(s)
    \/ Bind(s)
    \/ Accept(s)
    \/ AcceptTimeout(s)
    \/ UploadRecv(s)
    \/ DownloadSend(s)
    \/ FinishTransfer(s)
    \/ JoinAndDone(s)

ClientStep(c, sizes, ops) ==
    \/ ClientConnect(c)
    \/ \E name \in Names, size \in sizes : StartUpload(c, name, size, ops)
    \/ UploadRecvOk(c)
    \/ UploadConnect(c)
    \/ UploadSend(c)
    \/ UploadClose(c)
    \/ RecvDone(c)
    \/ \E name \in Names : StartDownload(c, name, ops)
    \/ DownloadRecvResp(c)
    \/ DownloadConnect(c)
    \/ DownloadRecv(c)
    \/ DownloadClose(c)
    \/ StartList(c, ops)
    \/ ListRecvOk(c)
    \/ ListRecvLine(c)
    \/ StartQuit(c, ops)
    \/ QuitRecv(c)
    \/ \E toks \in RawLines : RawSend(c, toks, ops)
    \/ \E toks \in PartialLines : RawSendPartial(c, toks, ops)
    \/ ClientExit(c)

\* Two clients at once
Next == \E c \in Clients : ServerStep(c) \/ ClientStep(c, ConcSizes, ConcOps)

\* One client alone: no second control connection is ever made
NextSolo == ServerStep(1) \/ ClientStep(1, UploadSizes, SoloOps)

Spec == Init /\ [][Next]_vars
SpecSolo == Init /\ [][NextSolo]_vars

\* The server's threads are scheduled: a thread that can take a step (the
\* accept timeout included, once its 10 s have passed) takes one eventually.
\* Nothing is assumed of the client.
SpecSoloFair == SpecSolo /\ WF_vars(ServerStep(1))

\* ------------------------------------------------------------------- claims
\* The handler s takes its command-loop step on the line at the head of its
\* control stream in this step
ReadsCommand(s) ==
    /\ spc[s] = "recv_cmd"
    /\ c2s[s] # <<>>
    /\ LineAvail(c2s[s], cclosed[s])
    /\ c2s'[s] = Tail(c2s[s])
Command(s) == Head(c2s[s]).toks
\* The lines the server adds to the control stream of s in this step
Added(s) ==
    IF Len(s2c'[s]) >= Len(s2c[s]) /\ SubSeq(s2c'[s], 1, Len(s2c[s])) = s2c[s]
    THEN SubSeq(s2c'[s], Len(s2c[s]) + 1, Len(s2c'[s]))
    ELSE <<>>

\* C1 -- Round trip.  A client alone has run upload_file and then
\* download_file for the same name, and is back at the menu: the download file,
\* when the download wrote one, holds exactly the bytes of the uploaded file.
RoundTripDone(c) ==
    /\ cpc[c] = "menu"
    /\ Len(log[c]) = 2
    /\ log[c][1].op = "upload"
    /\ log[c][1].size >= 0
    /\ log[c][2].op = "download"
    /\ log[c][2].name = log[c][1].name
C1_RoundTrip ==
    \A c \in Clients :
        (RoundTripDone(c) /\ log[c][1].name \in DOMAIN cfile[c])
            => cfile[c][log[c][1].name] = Content(c, log[c][1].size)
\* A round trip of a file one byte longer than a chunk ended with DONE.
C1_Witness ==
    \E c \in Clients :
        /\ RoundTripDone(c)
        /\ log[c][1].size = CHUNK_SIZE + 1
        /\ log[c][2].res = <<"DONE">>
        /\ log[c][1].name \in DOMAIN cfile[c]
        /\ cfile[c][log[c][1].name] = Content(c, CHUNK_SIZE + 1)

\* C2 -- DONE after an UPLOAD only once the file is stored.  When the handler
\* sends DONE for an UPLOAD whose client has delivered exactly size bytes on
\* its data connection, storage holds the file with exactly those bytes.
Delivered(s) ==
    /\ sop[s].filesize >= 0
    /\ cpc[s] = "up_done"
    /\ cop[s].size = sop[s].filesize
    /\ cop[s].name = sop[s].filename
    /\ cop[s].n = sop[s].filesize
Stored(s) ==
    /\ sop[s].filename \in DOMAIN storage
    /\ storage[sop[s].filename] = Content(s, sop[s].filesize)
SendsUploadDone(s) ==
    /\ spc[s] = "join"
    /\ sop[s].op = "UPLOAD"
    /\ Added(s) = <<Line(<<"DONE">>)>>
C2_DoneAfterStored ==
    [][\A s \in Clients : (SendsUploadDone(s) /\ Delivered(s)) => Stored(s)]_vars

\* C3 -- DOWNLOAD of a missing file.  The handler answers the one line
\* ERROR FileNotFound, starts no data thread, leaves the data port alone and
\* stays in its command loop.
DownloadsMissing(s) ==
    /\ ReadsCommand(s)
    /\ Len(Command(s)) >= 2
    /\ Command(s)[1] = "DOWNLOAD"
    /\ Command(s)[2] \notin DOMAIN storage
C3_DownloadMissing ==
    [][\A s \in Clients :
         DownloadsMissing(s) =>
            /\ Added(s) = <<Line(<<"ERROR", "FileNotFound">>)>>
            /\ spc'[s] = "recv_cmd"
            /\ dpc'[s] = "none"
            /\ listener' = listener
            /\ acceptq' = acceptq
            /\ storage' = storage]_vars
\* After ERROR FileNotFound the same session has answered a further command.
C3_Witness ==
    \E s \in Clients :
        /\ Len(s2c[s]) >= 2
        /\ s2c[s][1] = Line(<<"ERROR", "FileNotFound">>)
        /\ spc[s] = "recv_cmd"

\* C4 -- Unknown command.  For a first token other than UPLOAD, DOWNLOAD, LIST
\* and QUIT the handler answers exactly ERROR UnknownCommand, changes neither
\* storage nor the data endpoint, and stays in its command loop.
KnownCommands == {"UPLOAD", "DOWNLOAD", "LIST", "QUIT"}
ReadsUnknown(s) ==
    /\ ReadsCommand(s)
    /\ Command(s) # <<>>
    /\ Command(s)[1] \notin KnownCommands
C4_UnknownCommand ==
    [][\A s \in Clients :
         ReadsUnknown(s) =>
            /\ Added(s) = <<Line(<<"ERROR", "UnknownCommand">>)>>
            /\ spc'[s] = "recv_cmd"
            /\ dpc' = dpc
            /\ storage' = storage
            /\ listener' = listener
            /\ acceptq' = acceptq
            /\ conns' = conns]_vars
\* After ERROR UnknownCommand the same session has answered a further command.
C4_Witness ==
    \E s \in Clients :
        /\ Len(s2c[s]) >= 2
        /\ s2c[s][1] = Line(<<"ERROR", "UnknownCommand">>)
        /\ spc[s] = "recv_cmd"

\* C5 -- Concurrent uploads of distinct names.  Both clients have run one
\* upload_file to the end and read DONE: each destination file holds exactly
\* the bytes of its own client.
UploadOk(c) ==
    /\ cpc[c] = "menu"
    /\ Len(log[c]) = 1
    /\ log[c][1].op = "upload"
    /\ log[c][1].size >= 0
    /\ log[c][1].res = <<"DONE">>
StoredOwn(c) ==
    /\ log[c][1].name \in DOMAIN storage
    /\ storage[log[c][1].name] = Content(c, log[c][1].size)
C5_NoInterference ==
    (/\ \A c \in Clients : UploadOk(c)
     /\ log[1][1].name # log[2][1].name)
        => \A c \in Clients : StoredOwn(c)

\* C6 -- Commands are serialized within a session.  Whenever a handler is
\* about to read a line from its control connection (the next command, or
\* READY), no data thread of that session is alive.
C6_Serialized ==
    \A s \in Clients :
        spc[s] \in {"none", "recv_cmd", "wait_ready", "closed"} => dpc[s] = "none"
\* A handler is back at recv_line after the upload of a full-length file.
C6_Witness ==
    \E s \in Clients :
        /\ spc[s] = "recv_cmd"
        /\ s2c[s] # <<>>
        /\ s2c[s][Len(s2c[s])] = Line(<<"DONE">>)
        /\ Len(log[s]) >= 1
        /\ log[s][1].op = "upload"
        /\ log[s][1].size = MaxLen
        /\ log[s][1].name \in DOMAIN storage
        /\ storage[log[s][1].name] = Content(s, MaxLen)

\* C7 -- LIST.  The handler answers OK, then one line for each name in the
\* storage directory (each name once, nothing else), then DONE; with an empty
\* directory that is OK, DONE.  Two list_files run in a row by a client alone
\* collect the same set of names.
ReadsList(s) ==
    /\ ReadsCommand(s)
    /\ Command(s) # <<>>
    /\ Command(s)[1] = "LIST"
ListReplyExact(s) ==
    LET a == Added(s)
        n == Cardinality(DOMAIN storage)
    IN  /\ Len(a) = n + 2
        /\ a[1] = Line(<<"OK">>)
        /\ a[n + 2] = Line(<<"DONE">>)
        /\ {a[i] : i \in 2..(n + 1)} = {Line(<<x>>) : x \in DOMAIN storage}
        /\ spc'[s] = "recv_cmd"
Range(q) == {q[i] : i \in 1..Len(q)}
ListedTwice(c, k) ==
    /\ log[c][k].op = "list"
    /\ log[c][k + 1].op = "list"
    /\ log[c][k].res = <<"DONE">>
    /\ log[c][k + 1].res = <<"DONE">>
C7_List ==
    /\ [][\A s \in Clients : ReadsList(s) => ListReplyExact(s)]_vars
    /\ [](\A c \in Clients : \A k \in 1..(Len(log[c]) - 1) :
            ListedTwice(c, k) => Range(log[c][k].files) = Range(log[c][k + 1].files))
\* A client has listed a directory that holds a file twice in a row.
C7_Witness ==
    \E c \in Clients :
        /\ Len(log[c]) >= 2
        /\ ListedTwice(c, 1)
        /\ Range(log[c][1].files) = DOMAIN storage
        /\ DOMAIN storage # {}
\* A client has listed the empty directory: OK, DONE and no name.
C7_WitnessEmpty ==
    \E c \in Clients :
        /\ Len(log[c]) >= 1
        /\ log[c][1].op = "list"
        /\ log[c][1].res = <<"DONE">>
        /\ log[c][1].files = <<>>
        /\ DOMAIN storage = {}

\* C8 -- QUIT.  The handler answers exactly OK and closes the session; a closed
\* session stays closed, reads nothing more from its control stream and writes
\* nothing more to it.
ReadsQuit(s) ==
    /\ ReadsCommand(s)
    /\ Command(s) # <<>>
    /\ Command(s)[1] = "QUIT"
IsPrefix(p, q) == Len(p) <= Len(q) /\ SubSeq(q, 1, Len(p)) = p
C8_Quit ==
    [][\A s \in Clients :
         /\ ReadsQuit(s) => (Added(s) = <<Line(<<"OK">>)>> /\ spc'[s] = "closed")
         /\ spc[s] = "closed" =>
                /\ spc'[s] = "closed"
                /\ IsPrefix(c2s[s], c2s'[s])
                /\ (s2c'[s] = s2c[s] \/ s2c'[s] = LineRest(s2c[s]))]_vars
\* A session closed by QUIT holds a later command line that stays unread.
C8_Witness ==
    \E s \in Clients :
        /\ spc[s] = "closed"
        /\ s2c[s] = <<Line(<<"OK">>)>>
        /\ c2s[s] # <<>>
        /\ Head(c2s[s]).toks # <<>>

\* C9 -- A stalled session blocks no other.  While one client has read OK for
\* its UPLOAD and has not connected to the data port, another client that ran
\* upload_file to the end and read DONE has its file stored with its bytes.
C9_StalledCannotBlock ==
    \A a, b \in Clients :
        (a # b /\ cpc[a] = "up_conn" /\ dpc[a] = "accept" /\ UploadOk(b))
            => StoredOwn(b)

\* C10 -- The declared size is validated.  An UPLOAD whose size is negative
\* is not acknowledged with OK and starts no transfer (no file is created).
ReadsNegativeUpload(s) ==
    /\ ReadsCommand(s)
    /\ Len(Command(s)) >= 3
    /\ Command(s)[1] = "UPLOAD"
    /\ IsInt(Command(s)[3])
    /\ ParseInt(Command(s)[3]) < 0
C10_SizeValidated ==
    [][\A s \in Clients :
         ReadsNegativeUpload(s) =>
            /\ \A i \in 1..Len(Added(s)) : Added(s)[i].toks[1] # "OK"
            /\ dpc'[s] = "none"]_vars

\* C11 -- The data endpoint is bound before it is announced.  At the moment
\* the handler sends the OK line that carries the data port (UPLOAD or
\* DOWNLOAD), its listening socket is bound to the data port.
AnnouncesPort(s) ==
    /\ ReadsCommand(s)
    /\ Added(s) # <<>>
    /\ Added(s)[1].toks[1] = "OK"
    /\ Len(Added(s)[1].toks) >= 2
    /\ sop'[s].filesize >= 0
C11_BoundBeforeOk ==
    [][\A s \in Clients : AnnouncesPort(s) => listener = s]_vars

\* C12 -- READY before the data endpoint on the download path.  A data thread
\* for a DOWNLOAD starts only in the step in which the handler, waiting after
\* its OK, reads the line READY; while the handler waits the session holds no
\* listener and has accepted nothing; any other line starts no data thread,
\* leaves the data port alone and returns the handler to its command loop.
ReadsAfterOk(s) ==
    /\ spc[s] = "wait_ready"
    /\ spc'[s] # "wait_ready"
DownloadThreadStarts(s) ==
    /\ dpc[s] = "none"
    /\ dpc'[s] # "none"
    /\ sop'[s].op = "DOWNLOAD"
C12_ReadyBeforeAccept ==
    /\ [](\A s \in Clients :
            /\ spc[s] = "wait_ready" => (dpc[s] = "none" /\ listener # s)
            /\ (sop[s].op = "DOWNLOAD" /\ dpc[s] # "none") => spc[s] = "join")
    /\ [][\A s \in Clients :
            /\ DownloadThreadStarts(s) =>
                    (ReadsAfterOk(s) /\ LineText(c2s[s]) = <<"READY">>)
            /\ (ReadsAfterOk(s) /\ LineText(c2s[s]) # <<"READY">>) =>
                    /\ dpc'[s] = "none"
                    /\ spc'[s] = "recv_cmd"
                    /\ listener' = listener
                    /\ acceptq' = acceptq
                    /\ conns' = conns]_vars
\* A download is sending file bytes after READY was read.
C12_Witness ==
    \E s \in Clients :
        /\ sop[s].op = "DOWNLOAD"
        /\ dpc[s] = "xfer"
        /\ dst[s].n > 0
        /\ conns[dst[s].conn].down # <<>>
\* A handler that read a command line in place of READY is back in its loop.
C12_WitnessNotReady ==
    \E s \in Clients :
        /\ spc[s] = "recv_cmd"
        /\ dpc[s] = "none"
        /\ Len(log[s]) = 2
        /\ log[s][2].op = "raw"
        /\ c2s[s] = <<>>
        /\ Len(s2c[s]) = 1
        /\ Len(s2c[s][1].toks) = 3

\* C13 -- A malformed command is answered with an ERROR line.  For UPLOAD or
\* DOWNLOAD with a missing argument and for UPLOAD with a size that is no
\* integer, the handler sends an ERROR line and stays in its command loop.
ReadsMalformed(s) ==
    /\ ReadsCommand(s)
    /\ Command(s) # <<>>
    /\ \/ Command(s)[1] = "UPLOAD" /\ (Len(Command(s)) < 3 \/ ~IsInt(Command(s)[3]))
       \/ Command(s)[1] = "DOWNLOAD" /\ Len(Command(s)) < 2
C13_MalformedReported ==
    [][\A s \in Clients :
         ReadsMalformed(s) =>
            /\ Len(Added(s)) = 1
            /\ Added(s)[1].toks[1] = "ERROR"
            /\ spc'[s] = "recv_cmd"]_vars

\* The handler of s leaves data_thread.join() in this step, for a transfer of
\* a size that is not negative
LeavesJoin(s) == spc[s] = "join" /\ spc'[s] # "join" /\ sop[s].filesize >= 0

\* C14 -- Nothing is sent after an accept timeout.  When the data thread of an
\* UPLOAD or DOWNLOAD ended because accept timed out, the handler sends neither
\* DONE nor ERROR for that command.
C14_SilentAfterTimeout ==
    [][\A s \in Clients :
         (LeavesJoin(s) /\ dpc[s] = "timeout") =>
            \A i \in 1..Len(Added(s)) : Added(s)[i].toks[1] \notin {"DONE", "ERROR"}]_vars

\* C15 -- Any exception ends the session.  A command line whose parsing raises
\* (a missing argument, a size that is no integer) closes the session with no
\* reply, and so does a data thread that ended through an exception (a failed
\* bind, a failed send): no DONE, no ERROR, the control connection is closed.
C15_ExceptionEndsSession ==
    [][\A s \in Clients :
         /\ ReadsMalformed(s) => (Added(s) = <<>> /\ spc'[s] = "closed")
         /\ (LeavesJoin(s) /\ dpc[s] = "error") =>
                (Added(s) = <<>> /\ spc'[s] = "closed")]_vars

\* C16 -- The listening endpoint is single-use.  A session accepts at most one
\* connection per transfer, and only while its data thread is in accept; when
\* the data thread has ended on any path (a complete or a short transfer, an
\* accept timeout, an exception) the session holds no listener, and what was
\* still queued on the listener is reset, not served; a bind never succeeds
\* while another session's listener holds the data port.
AcceptedBy(s) == {id \in DOMAIN conns : conns[id].st = "accepted" /\ dst[s].conn = id}
Accepting == {id \in DOMAIN conns : conns[id].st = "queued"
                                     /\ id \in DOMAIN conns' /\ conns'[id].st = "accepted"}
ReadsPartial(s) ==
    /\ ReadsCommand(s)
    /\ ~Head(c2s[s]).nl
    /\ Command(s) # <<>>
C17_PartialLineDropped ==
    [][\A s \in Clients :
         ReadsPartial(s) =>
            (Added(s) = <<>> /\ dpc'[s] = "none" /\ spc'[s] = "closed")]_vars

\* C18 -- A short upload still ends with DONE.  When the peer of a client
\* alone closes its data connection after k < size bytes, the receive loop ends
\* and the thread returns normally, the stored file holds exactly the first k
\* bytes of the client's file, and the handler then sends DONE and reads the
\* next command.
ShortUploadEnds(s) ==
    /\ dpc[s] = "xfer"
    /\ dpc'[s] # "xfer"
    /\ sop[s].op = "UPLOAD"
    /\ dst[s].n < dst[s].filesize
C18_ShortUploadDone ==
    [][\A s \in Clients :
         /\ ShortUploadEnds(s) =>
                /\ dpc'[s] = "done"
                /\ dst'[s].n = dst[s].n
                /\ storage'[sop[s].filename] =
                        SubSeq(Content(s, sop[s].filesize), 1, dst[s].n)
         /\ (LeavesJoin(s) /\ dpc[s] = "done") =>
                (Added(s) = <<Line(<<"DONE">>)>> /\ spc'[s] = "recv_cmd")]_vars
\* An upload announced with a chunk and a byte ended after one chunk, the file
\* holds that chunk, and DONE was sent.
C18_Witness ==
    \E s \in Clients :
        /\ spc[s] = "recv_cmd"
        /\ Len(log[s]) = 1
        /\ log[s][1].op = "upload"
        /\ log[s][1].size = CHUNK_SIZE + 1
        /\ log[s][1].name \in DOMAIN storage
        /\ storage[log[s][1].name] = Content(s, CHUNK_SIZE)
        /\ s2c[s] # <<>>
        /\ s2c[s][Len(s2c[s])] = Line(<<"DONE">>)

NoNegativeSize == \A c \in Clients : \A i \in 1..Len(log[c]) : log[c][i].size >= 0
SendsDownloadDone(s) ==
    /\ spc[s] = "join"
    /\ sop[s].op = "DOWNLOAD"
    /\ dpc[s] = "done"
    /\ Added(s) = <<Line(<<"DONE">>)>>
C20_SentIsAnnounced ==
    [][\A s \in Clients :
         (SendsDownloadDone(s) /\ dst[s].n = dst[s].filesize /\ NoNegativeSize) =>
            dst[s].n = sop[s].filesize]_vars

====
